---- MODULE Spec2Model ----
(***************************************************************************)
(* A model of three helpers of the python_tools repository:                *)
(*   - cmmc/entities/state.py      State, the dict/attribute container     *)
(*   - cmmc/friendly_argparse.py   ArgHelper over argparse.ArgumentParser  *)
(*   - cmmc/file_tools.py          load_ndjson / load_jsonl                *)
(* Python strings that the code inspects character by character (names,   *)
(* flags, file lines) are sequences of one-character strings.  A Python    *)
(* dict is a sequence of [k, v] entries with distinct keys, in insertion   *)
(* order.                                                                  *)
(***************************************************************************)
EXTENDS Integers, Sequences, FiniteSets, TLC

VARIABLES
    heap,     \* State: the dict objects, by identity: [Obj -> dict]
    _data,    \* State: each instance's attribute _data: a reference or a raw value
    attrs,    \* State: each instance's other instance attributes (its __dict__)
    seed,     \* State: what each instance was last constructed from
    hist,     \* State: history, the entries set as data and not deleted since
    result,   \* State: the outcome of the last operation
    defined,  \* ArgHelper.defined: dest -> flags
    parser,   \* ArgHelper.parser: the ArgumentParser's registries
    argres,   \* ArgHelper: the outcome of the last call
    file,     \* file_tools: the lines of the file on disk
    loaded    \* file_tools: the outcome of the last load

vars == <<heap, _data, attrs, seed, hist, result, defined, parser, argres, file, loaded>>

stateVars == <<heap, _data, attrs, seed, hist, result>>
argVars == <<defined, parser, argres>>
fileVars == <<file, loaded>>

-----------------------------------------------------------------------------
(* Bounds *)

\* the most entries a dict of the model holds
MaxLen == 2

\* the most actions the parser holds, its help action included
MaxActions == 3

\* the most lines of a file, and the most characters of a line
MaxLines == 2
MaxLineLen == 2

-----------------------------------------------------------------------------
(* Python dict: insertion-ordered entries with distinct keys *)

DictHas(d, k) == \E n \in 1..Len(d) : d[n].k = k

DictGet(d, k) == d[CHOOSE n \in 1..Len(d) : d[n].k = k].v

\* d[k] = v: an existing key keeps its position, a new key goes last
DictSet(d, k, v) ==
    IF DictHas(d, k)
    THEN [n \in 1..Len(d) |-> IF d[n].k = k THEN [k |-> k, v |-> v] ELSE d[n]]
    ELSE Append(d, [k |-> k, v |-> v])

\* del d[k] for a key that is present
DictDel(d, k) == SelectSeq(d, LAMBDA e : e.k # k)

DictKeys(d) == [n \in 1..Len(d) |-> d[n].k]

DictItems(d) == {d[n] : n \in 1..Len(d)}

\* d1 == d2: the same entries, in any order
DictEq(d1, d2) == DictItems(d1) = DictItems(d2)

EmptyDict == <<>>

-----------------------------------------------------------------------------
(* State: names, values, objects *)

KeyA == <<"a">>
KeyB == <<"b">>
KeyKeys == <<"k", "e", "y", "s">>
KeyGet == <<"g", "e", "t">>
KeyItems == <<"i", "t", "e", "m", "s">>
KeyX == <<"_", "x">>
KeyData == <<"_", "d", "a", "t", "a">>

\* the names the operations of Spec are called with
Keys == {KeyA, KeyB, KeyKeys, KeyX, KeyData}

\* the names the operations of SpecPair are called with
PairKeys == {KeyA}

\* the private names state.name = value is called with in SpecPair
PairNames == {KeyA, KeyData}

\* the values: Python ints
Values == {1, 2}

\* the State instances, and the caller's plain dict m
Inst == {"s1", "s2"}
Caller == "m"

\* the dict object that __init__ creates for an instance
Slot(i) == IF i = "s1" THEN "d1" ELSE "d2"

Obj == {Caller, "d1", "d2"}

\* key.startswith("_")
IsPrivate(key) == Len(key) >= 1 /\ key[1] = "_"

\* names that ordinary attribute lookup finds on the class before __getattr__ runs
ClassAttrs == {KeyKeys, KeyGet, KeyItems}

\* the value of self._data: a reference to a dict object, or what it was rebound to
Ref(o) == [isdict |-> TRUE, obj |-> o, raw |-> 0]
Raw(v) == [isdict |-> FALSE, obj |-> "none", raw |-> v]

-----------------------------------------------------------------------------
(* State: outcomes *)

Outcome(exc, kind, val, ks) == [exc |-> exc, kind |-> kind, val |-> val, ks |-> ks]

Raise(exc) == Outcome(exc, "none", 0, <<>>)
RetValue(v) == Outcome("none", "value", v, <<>>)
RetMethod == Outcome("none", "method", 0, <<>>)
RetDict(d) == Outcome("none", "dict", 0, d)
RetNone == Outcome("none", "none", 0, <<>>)
RetBool(b) == Outcome("none", "bool", IF b THEN 1 ELSE 0, <<>>)
RetInt(n) == Outcome("none", "int", n, <<>>)
RetKeys(ks) == Outcome("none", "keys", 0, ks)

-----------------------------------------------------------------------------
(* State: the reading operations, on storage h and attributes d, at *)

\* self._data[key]
Subscript(h, d, i, key) ==
    IF ~d[i].isdict THEN Raise("TypeError")
    ELSE IF DictHas(h[d[i].obj], key) THEN RetValue(DictGet(h[d[i].obj], key))
    ELSE Raise("KeyError")

\* state[key]
GetItemOn(h, d, i, key) == Subscript(h, d, i, key)

\* state.key: the instance's attributes, then the class, then __getattr__
GetAttrOn(h, d, at, i, key) ==
    IF key = KeyData
    THEN IF d[i].isdict THEN RetDict(h[d[i].obj]) ELSE RetValue(d[i].raw)
    ELSE IF DictHas(at[i], key) THEN RetValue(DictGet(at[i], key))
    ELSE IF key \in ClassAttrs THEN RetMethod
    ELSE LET r == Subscript(h, d, i, key)
         IN IF r.exc = "KeyError" THEN Raise("AttributeError") ELSE r

\* len(state)
LenOn(h, d, i) ==
    IF ~d[i].isdict THEN Raise("TypeError") ELSE RetInt(Len(h[d[i].obj]))

\* list(iter(state))
IterOn(h, d, i) ==
    IF ~d[i].isdict THEN Raise("TypeError") ELSE RetKeys(DictKeys(h[d[i].obj]))

\* state.as_dict()
AsDictOn(h, d, i) ==
    IF d[i].isdict THEN RetDict(h[d[i].obj]) ELSE RetValue(d[i].raw)

\* (a slip: "is" for "==", the same object instead of the same value)
DataEqIdentity(h, x, y) == x = y

\* self._data == other._data, for two values of the attribute
DataEq(h, x, y) ==
    IF x.isdict /\ y.isdict THEN DictEq(h[x.obj], h[y.obj])
    ELSE IF ~x.isdict /\ ~y.isdict THEN x.raw = y.raw
    ELSE FALSE

\* state == other, other a State
EqOn(h, d, i, j) == RetBool(DataEq(h, d[i], d[j]))

\* state == other, other the plain dict m
EqDictOn(h, d, i) == RetBool(DataEq(h, d[i], Ref(Caller)))

GetItem(i, key) == GetItemOn(heap, _data, i, key)
GetAttr(i, key) == GetAttrOn(heap, _data, attrs, i, key)
Length(i) == LenOn(heap, _data, i)
Iterate(i) == IterOn(heap, _data, i)
AsDict(i) == AsDictOn(heap, _data, i)
Equals(i, j) == EqOn(heap, _data, i, j)
EqualsDict(i) == EqDictOn(heap, _data, i)

-----------------------------------------------------------------------------
(* State: the writing operations, as the state they leave *)

Post(exc, h, d, at) == [exc |-> exc, heap |-> h, data |-> d, attrs |-> at]

\* rebinding i's _data drops its reference: a dict nothing else refers to is freed
Release(h, d, i) ==
    IF d[i].isdict /\ d[i].obj # Caller
       /\ \A j \in Inst \ {i} : ~(d[j].isdict /\ d[j].obj = d[i].obj)
    THEN [h EXCEPT ![d[i].obj] = EmptyDict]
    ELSE h

\* state[key] = value
SetItemPost(i, key, value) ==
    IF ~_data[i].isdict THEN Post("TypeError", heap, _data, attrs)
    ELSE Post("none", [heap EXCEPT ![_data[i].obj] = DictSet(@, key, value)],
              _data, attrs)

\* state.key = value
SetAttrPost(i, key, value) ==
    IF IsPrivate(key)
    THEN IF key = KeyData
         THEN Post("none", Release(heap, _data, i), [_data EXCEPT ![i] = Raw(value)], attrs)
         ELSE Post("none", heap, _data, [attrs EXCEPT ![i] = DictSet(@, key, value)])
    ELSE SetItemPost(i, key, value)

\* del state[key]
DelItemPost(i, key) ==
    IF ~_data[i].isdict THEN Post("TypeError", heap, _data, attrs)
    ELSE IF ~DictHas(heap[_data[i].obj], key) THEN Post("KeyError", heap, _data, attrs)
    ELSE Post("none", [heap EXCEPT ![_data[i].obj] = DictDel(@, key)], _data, attrs)

\* (a slip: "initial if initial else {}" keeps the caller's own dict)
StorageObjAliased(i, src) ==
    IF src = Caller /\ Len(heap[Caller]) > 0 THEN Caller ELSE Slot(i)

\* the object that holds a new instance's entries: dict(initial) and {} are new dicts
StorageObj(i, src) == Slot(i)

\* bool(initial), len(initial) and dict(initial) for a seed: "none", m, or a State
SeedRaises(src) == src \in Inst /\ ~_data[src].isdict

SeedEntries(src) ==
    IF src = "none" THEN EmptyDict
    ELSE IF src = Caller THEN heap[Caller]
    ELSE heap[_data[src].obj]

\* State(initial), bound to i
ConstructPost(i, src) ==
    IF SeedRaises(src) THEN Post("TypeError", heap, _data, attrs)
    ELSE LET o == StorageObj(i, src)
             entries == IF Len(SeedEntries(src)) > 0 THEN SeedEntries(src) ELSE EmptyDict
         IN Post("none", [Release(heap, _data, i) EXCEPT ![o] = entries],
                 [_data EXCEPT ![i] = Ref(o)],
                 [attrs EXCEPT ![i] = EmptyDict])

\* m[key] = value and del m[key], by the caller that owns m
CallerSetPost(key, value) ==
    Post("none", [heap EXCEPT ![Caller] = DictSet(@, key, value)], _data, attrs)

CallerDelPost(key) ==
    IF ~DictHas(heap[Caller], key) THEN Post("KeyError", heap, _data, attrs)
    ELSE Post("none", [heap EXCEPT ![Caller] = DictDel(@, key)], _data, attrs)

-----------------------------------------------------------------------------
(* ArgHelper: strings *)

\* s.startswith("--")
StartsWithDashes(s) == Len(s) >= 2 /\ s[1] = "-" /\ s[2] = "-"

\* s.lstrip("-")
RECURSIVE LStripDash(_)
LStripDash(s) == IF Len(s) > 0 /\ s[1] = "-" THEN LStripDash(Tail(s)) ELSE s

\* s.replace(old, new), old and new one character each
Replace(s, old, new) == [n \in 1..Len(s) |-> IF s[n] = old THEN new ELSE s[n]]

FlagX == <<"-", "-", "x">>
FlagY == <<"-", "y">>
FlagXY == <<"-", "-", "x", "-", "y">>
FlagH == <<"-", "h">>
FlagHelp == <<"-", "-", "h", "e", "l", "p">>
NameHelp == <<"h", "e", "l", "p">>
NameP == <<"p">>
NamePdashQ == <<"p", "-", "q">>
NamePQ == <<"p", "_", "q">>
NameX == <<"x">>
NameXY == <<"x", "_", "y">>
NameY == <<"y">>
NameZ == <<"z">>
NoStr == <<>>

-----------------------------------------------------------------------------
(* ArgHelper: _normalise and argparse's add_argument *)

\* a call add_arg(*args, **kwargs); an absent keyword is the empty string
Call(args, dest, name, shortform, flag) ==
    [args |-> args, dest |-> dest, name |-> name, shortform |-> shortform, flag |-> flag]

\* the calls the model makes
Calls == {
    Call(<<FlagX>>, NoStr, NoStr, NoStr, TRUE),          \* add_arg("--x")
    Call(<<FlagY, FlagXY>>, NoStr, NoStr, NoStr, TRUE),  \* add_arg("-y", "--x-y")
    Call(<<FlagX>>, NameZ, NoStr, NoStr, TRUE),          \* add_arg("--x", dest="z")
    Call(<<NamePdashQ>>, NoStr, NoStr, NoStr, TRUE),     \* add_arg("p-q")
    Call(<<NameP>>, NoStr, NoStr, NoStr, TRUE),          \* add_arg("p")
    Call(<<>>, NoStr, NameP, NoStr, FALSE),              \* add_arg(name="p", flag=False)
    Call(<<>>, NoStr, NameXY, NameY, TRUE),              \* add_arg(name="x_y", shortform="y")
    Call(<<>>, NoStr, NameZ, NameXY, TRUE),              \* add_arg(name="z", shortform="x_y")
    Call(<<>>, NoStr, NoStr, NoStr, TRUE)                \* add_arg()
}

\* the names delete_arg is called with
ArgNames == {NameX, NameXY, NameZ, NameP, NamePQ, NamePdashQ, NameHelp}

_infer_dest_from_flags(flags) ==
    LET long_flags == SelectSeq(flags, StartsWithDashes)
        base == IF Len(long_flags) > 0
                THEN SubSeq(long_flags[1], 3, Len(long_flags[1]))
                ELSE LStripDash(flags[1])
    IN Replace(base, "-", "_")

Normalised(exc, flags, kwdest, dest) ==
    [exc |-> exc, flags |-> flags, kwdest |-> kwdest, dest |-> dest]

\* (flags, kwargs, dest); of kwargs the model keeps "dest"
_normalise(c) ==
    IF Len(c.args) > 0
    THEN Normalised("none", c.args, c.dest,
                    IF c.dest # NoStr THEN c.dest ELSE _infer_dest_from_flags(c.args))
    ELSE IF c.name = NoStr THEN Normalised("ValueError", <<>>, NoStr, NoStr)
    ELSE IF c.flag
    THEN IF c.shortform # NoStr /\ Len(c.shortform) # 1
         THEN Normalised("ValueError", <<>>, NoStr, NoStr)
         ELSE LET short == IF c.shortform # NoStr THEN <<<<"-">> \o c.shortform>> ELSE <<>>
                  long_flag == <<"-", "-">> \o Replace(c.name, "_", "-")
                  kwdest == IF c.dest # NoStr THEN c.dest ELSE c.name
              IN Normalised("none", Append(short, long_flag), kwdest, kwdest)
    ELSE LET kwdest == IF c.dest # NoStr THEN c.dest ELSE c.name
         IN Normalised("none", <<c.name>>, kwdest, kwdest)

\* an argparse action: its identity, dest and option strings, and the defined key
\* under which add_arg registered it (the empty string for the parser's own -h)
Action(id, dest, option_strings, owner) ==
    [id |-> id, dest |-> dest, option_strings |-> option_strings, owner |-> owner]

HelpAction == Action(0, NameHelp, <<FlagH, FlagHelp>>, NoStr)

\* argparse.ArgumentParser(description=description)
NewParser ==
    [_actions |-> <<HelpAction>>,
     positionals |-> <<>>,
     optionals |-> <<HelpAction>>,
     _option_string_actions |->
         <<[k |-> FlagH, v |-> HelpAction], [k |-> FlagHelp, v |-> HelpAction]>>]

SeqToSet(q) == {q[n] : n \in 1..Len(q)}

\* a new object's identity: one that no action of the parser has
FreshId(ps) ==
    CHOOSE n \in 0..Len(ps._actions) : \A a \in SeqToSet(ps._actions) : a.id # n

\* the option strings of the new action that the parser already maps
Conflicts(ps, option_strings) ==
    {o \in SeqToSet(option_strings) : DictHas(ps._option_string_actions, o)}

\* self._option_string_actions[option_string] = action, for each option string
RECURSIVE MapOptions(_, _, _)
MapOptions(table, option_strings, a) ==
    IF option_strings = <<>> THEN table
    ELSE MapOptions(DictSet(table, Head(option_strings), a), Tail(option_strings), a)

ParserPost(exc, ps) == [exc |-> exc, parser |-> ps]

\* parser.add_argument(*flags, dest=kwdest): flags is not empty
add_argument(ps, flags, kwdest, owner) ==
    IF Len(flags) = 1 /\ flags[1][1] # "-"
    THEN \* a positional
         IF kwdest # NoStr THEN ParserPost("ValueError", ps)
         ELSE LET a == Action(FreshId(ps), flags[1], <<>>, owner)
              IN ParserPost("none", [ps EXCEPT !._actions = Append(@, a),
                                               !.positionals = Append(@, a)])
    ELSE \* an optional
         IF \E f \in SeqToSet(flags) : f[1] # "-" THEN ParserPost("ValueError", ps)
         ELSE LET long == SelectSeq(flags, StartsWithDashes)
                  first == IF Len(long) > 0 THEN long[1] ELSE flags[1]
                  dest == IF kwdest # NoStr THEN kwdest
                          ELSE Replace(LStripDash(first), "-", "_")
                  a == Action(FreshId(ps), dest, flags, owner)
              IN IF kwdest = NoStr /\ LStripDash(first) = NoStr
                 THEN ParserPost("ValueError", ps)
                 ELSE IF Conflicts(ps, flags) # {} THEN ParserPost("ArgumentError", ps)
                 ELSE ParserPost("none",
                         [ps EXCEPT !._actions = Append(@, a),
                                    !.optionals = Append(@, a),
                                    !._option_string_actions = MapOptions(@, flags, a)])

-----------------------------------------------------------------------------
(* ArgHelper: the operations, as the state they leave *)

ArgPost(exc, ret, df, ps) == [exc |-> exc, ret |-> ret, defined |-> df, parser |-> ps]

\* add_arg(*args, **kwargs): the registry is written before argparse is called
add_arg_post(c) ==
    LET n == _normalise(c)
    IN IF n.exc # "none" THEN ArgPost(n.exc, NoStr, defined, parser)
       ELSE LET df == DictSet(defined, n.dest, n.flags)
                p == add_argument(parser, n.flags, n.kwdest, n.dest)
            IN ArgPost(p.exc, IF p.exc = "none" THEN n.dest ELSE NoStr, df, p.parser)

\* the actions delete_arg collects: by dest, or by one of the defined flags
to_remove(ps, dest, flags) ==
    {a \in SeqToSet(ps._actions) :
        a.dest = dest \/ \E f \in SeqToSet(flags) : f \in SeqToSet(a.option_strings)}

\* delete_arg(name)
delete_arg_post(name) ==
    IF ~DictHas(defined, name) THEN ArgPost("none", FALSE, defined, parser)
    ELSE LET flags == DictGet(defined, name)
             gone == to_remove(parser, name, flags)
             keep(a) == a \notin gone
             opts == UNION {SeqToSet(a.option_strings) : a \in gone}
         IN ArgPost("none", TRUE, DictDel(defined, name),
                    [_actions |-> SelectSeq(parser._actions, keep),
                     positionals |-> SelectSeq(parser.positionals, keep),
                     optionals |-> SelectSeq(parser.optionals, keep),
                     _option_string_actions |->
                         SelectSeq(parser._option_string_actions,
                                   LAMBDA e : e.k \notin opts)])

\* reset()
reset_post == ArgPost("none", FALSE, EmptyDict, NewParser)

-----------------------------------------------------------------------------
(* file_tools: newline-delimited JSON *)

\* the characters of a line: two digits and the blank
Chars == {"1", "2", " "}

Lines == UNION {[1..n -> Chars] : n \in 0..MaxLineLen}

Files == UNION {[1..n -> Lines] : n \in 0..MaxLines}

\* line.strip(), for lines whose only whitespace is the blank
RECURSIVE LStrip(_)
LStrip(s) == IF Len(s) > 0 /\ s[1] = " " THEN LStrip(Tail(s)) ELSE s

RECURSIVE RStrip(_)
RStrip(s) ==
    IF Len(s) > 0 /\ s[Len(s)] = " " THEN RStrip(SubSeq(s, 1, Len(s) - 1)) ELSE s

Strip(s) == RStrip(LStrip(s))

Digit(c) == IF c = "1" THEN 1 ELSE 2

\* the integer a string of digits writes
RECURSIVE Number(_)
Number(s) ==
    IF s = <<>> THEN 0 ELSE 10 * Number(SubSeq(s, 1, Len(s) - 1)) + Digit(s[Len(s)])

\* json.loads(text) accepts, of these texts, the non-empty strings of digits
IsJson(text) == Len(text) > 0 /\ \A n \in 1..Len(text) : text[n] # " "

\* what a load gives: an exception, a list, or None
LoadRaise == [exc |-> "JSONDecodeError", kind |-> "none", list |-> <<>>]
LoadList(l) == [exc |-> "none", kind |-> "list", list |-> l]
LoadNone == [exc |-> "none", kind |-> "None", list |-> <<>>]
NoLoad == [exc |-> "none", kind |-> "nothing", list |-> <<>>]

Loaded(op, out) == [op |-> op, out |-> out]

\* load_ndjson(file_path)
load_ndjson_of(f) ==
    IF \E n \in 1..Len(f) : ~IsJson(Strip(f[n])) THEN LoadRaise
    ELSE LoadList([n \in 1..Len(f) |-> Number(Strip(f[n]))])

\* load_jsonl(file_path): calls load_ndjson and drops what it returns
load_jsonl_of(f) ==
    IF load_ndjson_of(f).exc # "none" THEN load_ndjson_of(f) ELSE LoadNone

-----------------------------------------------------------------------------
(* State: initial state and actions *)

\* what the last operation was and how it ended
Res(op, i, key, out) == [op |-> op, inst |-> i, key |-> key, out |-> out]

\* the seed mappings m that the instances are first constructed from
Seeds == {EmptyDict,
          <<[k |-> KeyA, v |-> 1]>>,
          <<[k |-> KeyA, v |-> 1], [k |-> KeyB, v |-> 2]>>}

\* ArgHelper(): a parser with its help action, nothing defined
ArgInit ==
    /\ defined = EmptyDict
    /\ parser = NewParser
    /\ argres = [op |-> "init", exc |-> "none", name |-> NoStr]

\* the files on disk: up to MaxLines lines of up to MaxLineLen characters
FileInit ==
    /\ file \in Files
    /\ loaded = Loaded("none", NoLoad)

\* the State and ArgHelper parts, when only files are looked at
Idle ==
    /\ heap = [o \in Obj |-> EmptyDict]
    /\ hist = [i \in Inst |-> EmptyDict]
    /\ _data = [i \in Inst |-> Ref(Slot(i))]
    /\ attrs = [i \in Inst |-> EmptyDict]
    /\ seed = [i \in Inst |-> "none"]
    /\ result = Res("construct", "s2", <<>>, RetNone)

\* m is a plain dict; s1 = State(m) and s2 = State(m)
StateInit ==
    /\ \E m \in Seeds :
          /\ heap = [o \in Obj |-> m]
          /\ hist = [i \in Inst |-> m]
    /\ _data = [i \in Inst |-> Ref(StorageObj(i, Caller))]
    /\ attrs = [i \in Inst |-> EmptyDict]
    /\ seed = [i \in Inst |-> Caller]
    /\ result = Res("construct", "s2", <<>>, RetNone)

NoFile ==
    /\ file = <<>>
    /\ loaded = Loaded("none", NoLoad)

Init == StateInit /\ ArgInit /\ NoFile

\* the operation that ends in state p, with outcome r and history h
Commit(p, r, h) ==
    /\ \A o \in Obj : Len(p.heap[o]) <= MaxLen
    /\ heap' = p.heap
    /\ _data' = p.data
    /\ attrs' = p.attrs
    /\ hist' = h
    /\ result' = r
    /\ UNCHANGED <<argVars, fileVars>>

Outcome0(p) == IF p.exc = "none" THEN RetNone ELSE Raise(p.exc)

set_by_key(i, key, value) ==
    LET p == SetItemPost(i, key, value)
    IN /\ Commit(p, Res("set_by_key", i, key, Outcome0(p)),
                 IF p.exc = "none" THEN [hist EXCEPT ![i] = DictSet(@, key, value)]
                 ELSE hist)
       /\ UNCHANGED seed

set_by_name(i, key, value) ==
    LET p == SetAttrPost(i, key, value)
    IN /\ Commit(p, Res("set_by_name", i, key, Outcome0(p)),
                 IF p.exc = "none" /\ ~IsPrivate(key)
                 THEN [hist EXCEPT ![i] = DictSet(@, key, value)]
                 ELSE hist)
       /\ UNCHANGED seed

delete_by_key(i, key) ==
    LET p == DelItemPost(i, key)
    IN /\ Commit(p, Res("delete_by_key", i, key, Outcome0(p)),
                 IF p.exc = "none" THEN [hist EXCEPT ![i] = DictDel(@, key)] ELSE hist)
       /\ UNCHANGED seed

construct(i, src) ==
    LET p == ConstructPost(i, src)
    IN /\ Commit(p, Res("construct", i, <<>>, Outcome0(p)),
                 IF p.exc = "none"
                 THEN [hist EXCEPT ![i] = IF src = "none" THEN EmptyDict
                                          ELSE IF src = Caller THEN heap[Caller]
                                          ELSE hist[src]]
                 ELSE hist)
       /\ seed' = IF p.exc = "none" THEN [seed EXCEPT ![i] = src] ELSE seed

caller_set(key, value) ==
    /\ Commit(CallerSetPost(key, value), Res("caller_set", Caller, key, RetNone), hist)
    /\ UNCHANGED seed

caller_del(key) ==
    LET p == CallerDelPost(key)
    IN /\ Commit(p, Res("caller_del", Caller, key, Outcome0(p)), hist)
       /\ UNCHANGED seed

\* an operation that only reads: nothing but its outcome is recorded
Read(op, i, key, out) ==
    /\ result' = Res(op, i, key, out)
    /\ UNCHANGED <<heap, _data, attrs, seed, hist, argVars, fileVars>>

get_by_key(i, key) == Read("get_by_key", i, key, GetItem(i, key))
get_by_name(i, key) == Read("get_by_name", i, key, GetAttr(i, key))
length(i) == Read("length", i, <<>>, Length(i))
iterate(i) == Read("iterate", i, <<>>, Iterate(i))
equals(i, j) == Read("equals", i, <<>>, Equals(i, j))
equals_dict(i) == Read("equals_dict", i, <<>>, EqualsDict(i))

\* one instance, every kind of name
Next ==
    \/ \E key \in Keys, value \in Values : set_by_key("s1", key, value)
    \/ \E key \in Keys, value \in Values : set_by_name("s1", key, value)
    \/ \E key \in Keys : delete_by_key("s1", key)
    \/ \E key \in Keys : get_by_key("s1", key)
    \/ \E key \in Keys : get_by_name("s1", key)
    \/ length("s1")
    \/ iterate("s1")

Spec == Init /\ [][Next]_vars

\* two instances and the caller's dict m
NextPair ==
    \/ \E i \in Inst, key \in PairKeys, value \in Values : set_by_key(i, key, value)
    \/ \E i \in Inst, key \in PairNames, value \in Values : set_by_name(i, key, value)
    \/ \E i \in Inst, key \in PairKeys : delete_by_key(i, key)
    \/ \E src \in {"none", Caller} : construct("s1", src)
    \/ \E src \in {Caller, "s1"} : construct("s2", src)
    \/ \E key \in PairKeys, value \in Values : caller_set(key, value)
    \/ \E key \in PairKeys : caller_del(key)
    \/ \E i \in Inst : \E j \in Inst \ {i} : equals(i, j)
    \/ \E i \in Inst : equals_dict(i)

SpecPair == Init /\ [][NextPair]_vars

-----------------------------------------------------------------------------
(* State: properties *)

Readable(out) == out.exc = "none"

\* the entries an instance holds, as as_dict() shows them, in state p
View(p, i) == AsDictOn(p.heap, p.data, i)

Here == Post("none", heap, _data, attrs)

\* the names that were set on the instance, as data or as private attributes
SetNames(i) == {hist[i][n].k : n \in 1..Len(hist[i])}
               \cup {attrs[i][n].k : n \in 1..Len(attrs[i])}

\* While _data refers to a dict, that dict holds exactly the entries set as data
\* and not deleted, in the order of their insertion.
HistIsStorage ==
    \A i \in Inst : _data[i].isdict => heap[_data[i].obj] = hist[i]

\* C1: every name that was set is readable by state[k] exactly when it is readable
\* by state.k, with the same value; set_by_key(k, v) then get_by_name(k) gives v,
\* and set_by_name(k, v) then get_by_key(k) gives v.
C1_DualAccess ==
    /\ \A k \in SetNames("s1") :
          /\ Readable(GetItem("s1", k)) <=> Readable(GetAttr("s1", k))
          /\ Readable(GetItem("s1", k)) => GetItem("s1", k) = GetAttr("s1", k)
    /\ (result.op = "set_by_key" /\ result.out.exc = "none") =>
          GetAttr("s1", result.key) = RetValue(DictGet(hist["s1"], result.key))
    /\ (result.op = "set_by_name" /\ result.out.exc = "none") =>
          /\ Readable(GetItem("s1", result.key))
          /\ GetItem("s1", result.key) = GetAttr("s1", result.key)

\* C2: for every name that is not set as data, get_by_key raises KeyError,
\* get_by_name raises AttributeError and delete_by_key raises KeyError, and the
\* storage stays as it is.
C2_MissingRaises ==
    \A k \in Keys :
        ~DictHas(hist["s1"], k) =>
            /\ GetItem("s1", k) = Raise("KeyError")
            /\ GetAttr("s1", k) = Raise("AttributeError")
            /\ DelItemPost("s1", k).exc = "KeyError"
            /\ View(DelItemPost("s1", k), "s1") = View(Here, "s1")

\* C3: set_by_name with a name that begins with "_" leaves the backing storage as
\* it is: the same keys, values, length and iteration order.
C3_PrivateNotStored ==
    \A k \in Keys, v \in Values :
        IsPrivate(k) =>
            LET p == SetAttrPost("s1", k, v)
            IN /\ View(p, "s1") = View(Here, "s1")
               /\ LenOn(p.heap, p.data, "s1") = Length("s1")
               /\ IterOn(p.heap, p.data, "s1") = Iterate("s1")

\* C4: length() is the number of distinct keys set (or seeded) and not deleted
\* since; setting an existing key keeps it, a successful delete lowers it by one.
C4_Length ==
    /\ Length("s1") = RetInt(Len(hist["s1"]))
    /\ \A k \in Keys, v \in Values :
          LET p == SetItemPost("s1", k, v)
          IN DictHas(hist["s1"], k) => LenOn(p.heap, p.data, "s1") = Length("s1")
    /\ \A k \in Keys :
          LET p == DelItemPost("s1", k)
          IN p.exc = "none" =>
                LenOn(p.heap, p.data, "s1") = RetInt(Length("s1").val - 1)

\* the same key-to-value entries, whatever their order
SameEntries(d1, d2) ==
    \A k \in Keys :
        /\ DictHas(d1, k) <=> DictHas(d2, k)
        /\ DictHas(d1, k) => DictGet(d1, k) = DictGet(d2, k)

\* value equality of what two _data attributes hold
SameStorage(x, y) ==
    IF x.isdict /\ y.isdict THEN SameEntries(heap[x.obj], heap[y.obj])
    ELSE ~x.isdict /\ ~y.isdict /\ x.raw = y.raw

\* C5: equals is value equality of the backing storages: an instance equals
\* another instance, or the plain dict m, exactly when both hold the same
\* key-to-value entries; two instances built from the same seed and not changed
\* since are equal, and once the entries of one change they are unequal.
C5_Equality ==
    /\ \A i \in Inst, j \in Inst :
          Equals(i, j) = RetBool(SameStorage(_data[i], _data[j]))
    /\ \A i \in Inst : EqualsDict(i) = RetBool(SameStorage(_data[i], Ref(Caller)))
    /\ \A i \in Inst, j \in Inst :
          (seed[i] = seed[j] /\ _data[i].isdict /\ _data[j].isdict)
             => (Equals(i, j) = RetBool(TRUE) <=> SameEntries(hist[i], hist[j]))

\* two instances built from m compared unequal after one of them was changed
C5_Witness ==
    /\ result.op = "equals" /\ result.out = RetBool(FALSE)
    /\ seed["s1"] = Caller /\ seed["s2"] = Caller
    /\ _data["s1"].isdict /\ _data["s2"].isdict
    /\ Len(heap[_data["s1"].obj]) = Len(heap[_data["s2"].obj])

\* C6: iterate() yields exactly the current keys, each once, in the order of
\* their insertion; setting a key that is present does not move it.
C6_IterationOrder ==
    Iterate("s1") = RetKeys(DictKeys(hist["s1"]))

\* the objects whose entries an operation on x must leave alone, given the seeds
Linked(x) ==
    IF x = Caller THEN {i \in Inst : seed[i] = Caller}
    ELSE {j \in Inst \ {x} : seed[x] = j \/ seed[j] = x}
         \cup (IF seed[x] = Caller THEN {Caller} ELSE {})

EntriesIn(p, x) == IF x = Caller THEN RetDict(p.heap[Caller]) ELSE View(p, x)

Untouched(p, x) == \A y \in Linked(x) : EntriesIn(p, y) = EntriesIn(Here, y)

-----------------------------------------------------------------------------
(* ArgHelper: actions *)

ArgRes(op, exc, name) == [op |-> op, exc |-> exc, name |-> name]

ArgCommit(p, r) ==
    /\ Len(p.parser._actions) <= MaxActions
    /\ defined' = p.defined
    /\ parser' = p.parser
    /\ argres' = r
    /\ UNCHANGED <<stateVars, fileVars>>

add_arg(c) ==
    LET p == add_arg_post(c) IN ArgCommit(p, ArgRes("add_arg", p.exc, p.ret))

\* add_from_spec(spec): a dict is add_arg(**spec), a pair is add_arg(*args, **kw)
add_from_spec(shape, c) ==
    IF shape = "dict" THEN Len(c.args) = 0 /\ add_arg(c)
    ELSE IF shape = "pair" THEN add_arg(c)
    ELSE ArgCommit(ArgPost("TypeError", NoStr, defined, parser),
                   ArgRes("add_from_spec", "TypeError", NoStr))

delete_arg(name) ==
    LET p == delete_arg_post(name)
    IN ArgCommit(p, ArgRes(IF p.ret THEN "deleted" ELSE "not_deleted", "none", name))

reset == ArgCommit(reset_post, ArgRes("reset", "none", NoStr))

NextArgs ==
    \/ \E c \in Calls : add_arg(c)
    \/ \E shape \in {"dict", "pair", "other"}, c \in Calls : add_from_spec(shape, c)
    \/ \E name \in ArgNames : delete_arg(name)
    \/ reset

InitArgs == Idle /\ ArgInit /\ NoFile

SpecArgs == InitArgs /\ [][NextArgs]_vars

-----------------------------------------------------------------------------
(* file_tools: actions *)

load_ndjson ==
    /\ loaded' = Loaded("load_ndjson", load_ndjson_of(file))
    /\ UNCHANGED <<file, stateVars, argVars>>

load_jsonl ==
    /\ loaded' = Loaded("load_jsonl", load_jsonl_of(file))
    /\ UNCHANGED <<file, stateVars, argVars>>

NextFile == load_ndjson \/ load_jsonl

InitFile == Idle /\ ArgInit /\ FileInit

SpecFile == InitFile /\ [][NextFile]_vars

-----------------------------------------------------------------------------
(* ArgHelper and file_tools: properties *)

\* every action the parser holds: in its action list, in its groups, or behind
\* an option string
Registries(ps) ==
    SeqToSet(ps._actions) \cup SeqToSet(ps.positionals) \cup SeqToSet(ps.optionals)
    \cup {e.v : e \in SeqToSet(ps._option_string_actions)}

\* the actions the parser holds for the argument defined as name
HeldFor(ps, name) == {a \in Registries(ps) : a.owner = name}

DefinedKeys(df) == {df[n].k : n \in 1..Len(df)}

\* C8: delete_arg(name) returns False and changes nothing when name is not
\* defined; when it returns True, name is no longer defined, the parser holds no
\* action for that argument, and every other defined argument keeps its action.
C8_DeleteArg ==
    \A name \in ArgNames :
        LET p == delete_arg_post(name)
        IN /\ ~DictHas(defined, name) =>
                 p.ret = FALSE /\ p.defined = defined /\ p.parser = parser
           /\ p.ret = TRUE =>
                 /\ ~DictHas(p.defined, name)
                 /\ HeldFor(p.parser, name) = {}
                 /\ \A d \in DefinedKeys(p.defined) :
                       HeldFor(p.parser, d) = HeldFor(parser, d)

\* the actions the parser holds besides its own help action
UserActions(ps) == {a \in SeqToSet(ps._actions) : a # HelpAction}

\* C10: the keys of defined are the dests of the user-added actions of the
\* parser, one action for each; an add_arg that raises leaves defined as it was.
C10_RegistryMatchesParser ==
    /\ DefinedKeys(defined) = {a.dest : a \in UserActions(parser)}
    /\ \A d \in DefinedKeys(defined) :
          Cardinality({a \in UserActions(parser) : a.dest = d}) = 1
    /\ (argres.op = "add_arg" /\ argres.exc # "none") =>
          \A d \in DefinedKeys(defined) : \E a \in UserActions(parser) : a.owner = d

\* C9: load_jsonl returns what load_ndjson returns for the same file: a list
\* with one decoded element for each line, in the order of the file.
C9_LoadJsonl ==
    loaded.op = "load_jsonl" => loaded.out = load_ndjson_of(file)

====
